---- MODULE Spec2Model ----
(***************************************************************************)
(* Fixed-window rate limiting over a shared Redis counter, as implemented  *)
(* by aio_redis_rate_limit (RateLimiter, rate_limit, _make_cache_key).     *)
(*                                                                         *)
(* The program modelled: user code constructs one RateLimiter and shares   *)
(* it between tasks, and wraps a function with @rate_limit.  A task is one *)
(* use of a limiter: `async with shared:` or one call of the wrapped       *)
(* function (whose factory builds a RateLimiter of its own).  The store is *)
(* the Redis server: a map from keys to a counter and its time to live.    *)
(***************************************************************************)
EXTENDS Integers, Sequences, FiniteSets, TLC

\* ------------------------------------------------------------------ bounds
MaxTasks == 3       \* concurrent uses of a limiter (each enters once)

Tasks == 1..MaxTasks

\* ------------------------------------------------------------ input domains
\* RateSpec is a NamedTuple of two ints; nothing restricts their sign.
RateSpec(r, s) == [requests |-> r, seconds |-> s]

Limiter(u, rs, p) == [unique_key |-> u, rate_spec |-> rs, cache_prefix |-> p]

\* cache_prefix default of rate_limit: 'aio-rate-limit'
DefaultPrefix == "aio-rate-limit"

\* The arguments user code constructs a RateLimiter with.
Configs ==
    {Limiter("f", RateSpec(1, 2), DefaultPrefix),
     Limiter("g", RateSpec(1, 2), DefaultPrefix),
     Limiter("f", RateSpec(2, 1), DefaultPrefix),
     Limiter("f", RateSpec(0, 1), DefaultPrefix),
     Limiter("f", RateSpec(1, 0), DefaultPrefix)}

\* The functions wrapped by @rate_limit(rate_spec, backend): qualified name,
\* and the rate_spec and cache_prefix the decorator closed over.
Decorated ==
    {[qualname |-> "f", rate_spec |-> RateSpec(1, 2),
      cache_prefix |-> DefaultPrefix]}

\* --------------------------------------------------------- key derivation
Digits == <<"0", "1", "2", "3", "4", "5", "6", "7", "8", "9">>

RECURSIVE NatStr(_)
NatStr(n) ==
    IF n < 10 THEN Digits[n + 1]
    ELSE NatStr(n \div 10) \o Digits[(n % 10) + 1]

\* str() of a Python int
IntStr(n) == IF n < 0 THEN "-" \o NatStr(0 - n) ELSE NatStr(n)

\* Variant of the text of a RateSpec: its two numbers, one after the other.
RateSpecDigits(rs) == IntStr(rs.requests) \o IntStr(rs.seconds)

\* str(rate_spec): the NamedTuple repr, 'RateSpec(requests=N, seconds=T)'
RateSpecStr(rs) ==
    "RateSpec(requests=" \o IntStr(rs.requests)
    \o ", seconds=" \o IntStr(rs.seconds) \o ")"

\* hashlib.md5(parts).hexdigest(): a fixed-width digest, taken to be free of
\* collisions; it is kept as the tagged text it digests.
Md5HexDigest(parts) == [md5 |-> parts]

\* Variant of the key that leaves unique_key out of the digest.
make_cache_key_no_identity(unique_key, rate_spec, cache_prefix) ==
    [prefix |-> cache_prefix, digest |-> Md5HexDigest(RateSpecStr(rate_spec))]

\* Variant of the key that puts the default prefix in place of an empty one.
make_cache_key_default_prefix(unique_key, rate_spec, cache_prefix) ==
    LET parts == unique_key \o RateSpecStr(rate_spec)
    IN  [prefix |-> IF cache_prefix = "" THEN DefaultPrefix ELSE cache_prefix,
         digest |-> Md5HexDigest(parts)]

\* cache_prefix + hexdigest: the digest has a fixed width (32), so the string
\* is the pair of its prefix and its digest.
make_cache_key(unique_key, rate_spec, cache_prefix) ==
    LET parts == unique_key \o RateSpecStr(rate_spec)
    IN  [prefix |-> cache_prefix, digest |-> Md5HexDigest(parts)]

Keys ==
    {make_cache_key(c.unique_key, c.rate_spec, c.cache_prefix) : c \in Configs}
    \cup {make_cache_key(f.qualname, f.rate_spec, f.cache_prefix) : f \in Decorated}

NoKey == [prefix |-> "", digest |-> [md5 |-> ""]]

\* ------------------------------------------------------------------- state
VARIABLES
    shared,     \* the RateLimiter that user code shares: its slots, its lock
    tasks,      \* each task's position in __aenter__ / _acquire / the body
    store,      \* the Redis keyspace: counter and seconds to live
    history,    \* per key: the records created so far, the latest one's batches
    recent      \* per key: the permits taken in each of the last seconds

vars == <<shared, tasks, store, history, recent>>

NoConfig == Limiter("", RateSpec(0, 0), "")

NoLimiter == [made |-> FALSE, self |-> NoConfig, locked |-> FALSE]

\* RateLimiter.__init__: stores its arguments, makes a fresh unlocked lock.
\* It checks nothing about rate_spec.
NewLimiter(unique_key, rate_spec, cache_prefix) ==
    [made |-> TRUE, self |-> Limiter(unique_key, rate_spec, cache_prefix),
     locked |-> FALSE]

\* Exceptions, with their args; a Python value is tagged with its type.
NoError == [type |-> "none", args |-> <<>>]
\* Variant of the error that carries the message only.
RateLimitErrorBare(current_rate) ==
    [type |-> "RateLimitError", args |-> <<[str |-> "Rate limit is hit"]>>]

\* RateLimitError('Rate limit is hit', current_rate)
RateLimitError(current_rate) ==
    [type |-> "RateLimitError",
     args |-> <<[str |-> "Rate limit is hit"], [int |-> current_rate]>>]
\* what redis raises when the round trip fails
ConnectionError == [type |-> "ConnectionError", args |-> <<>>]
\* what the guarded body raises when it fails
WorkError == [type |-> "WorkError", args |-> <<>>]

\* A task: self is the RateLimiter it entered, own tells that factory built
\* it for this call; cache_key and pipeline are the locals of _acquire; reply
\* is what the server answered; error is what the caller gets.  The rest is
\* history: sent counts the batches this call sent, life and batch tell where
\* its batch counted, acquire how _acquire ended.
IdleTask ==
    [pc |-> "idle", own |-> FALSE, self |-> NoConfig, cache_key |-> NoKey,
     pipeline |-> <<>>, reply |-> <<>>, error |-> NoError, work |-> "no",
     sent |-> 0, life |-> 0, batch |-> 0, acquire |-> "none"]

\* An absent key has val 0.  ttl is the time the key has left to live, in
\* seconds; ttl 0 means no TTL is set.
NoRecord == [val |-> 0, ttl |-> 0]

\* Nothing has counted at a key yet (see the history section below).
NoHistory == [lives |-> 0, log |-> <<>>]

\* The RateSpec of the limiters that count at key k.
RateSpecOf(k) ==
    LET limiters == Configs \cup {Limiter(f.qualname, f.rate_spec,
                                          f.cache_prefix) : f \in Decorated}
        c == CHOOSE c \in limiters :
                 make_cache_key(c.unique_key, c.rate_spec, c.cache_prefix) = k
    IN  c.rate_spec

\* recent[k][1] is the number of permits taken at key k in the current
\* second, recent[k][2] in the second before, and so on for as many seconds
\* as an interval of length `seconds` can touch.  Only the timed actions
\* (see below) keep it.
Quiet(k) ==
    LET seconds == RateSpecOf(k).seconds
    IN  [i \in 1..(IF seconds >= 1 THEN seconds + 1 ELSE 1) |-> 0]

Init ==
    /\ shared = NoLimiter
    /\ tasks = [t \in Tasks |-> IdleTask]
    /\ store = [k \in Keys |-> NoRecord]
    /\ history = [k \in Keys |-> NoHistory]
    /\ recent = [k \in Keys |-> Quiet(k)]

\* ------------------------------------------------------------ the store
\* Commands as queued on a redis pipeline.
IncrCmd(key) == [op |-> "INCR", key |-> key, seconds |-> 0, nx |-> FALSE]
ExpireCmd(key, seconds, nx) ==
    [op |-> "EXPIRE", key |-> key, seconds |-> seconds, nx |-> nx]

\* Variant of INCR that replies with the new value and forgets to store it
\* when the key exists.
RedisIncrLost(s, key) ==
    LET old == s[key]
    IN  IF old.val = 0
        THEN [store |-> [s EXCEPT ![key] = [val |-> 1, ttl |-> 0]],
              reply |-> 1]
        ELSE [store |-> s, reply |-> old.val + 1]

\* INCR key: an absent key counts from 0 and gets no TTL; the reply is the
\* new value.
RedisIncr(s, key) ==
    LET old == s[key]
        new == IF old.val = 0
               THEN [val |-> 1, ttl |-> 0]
               ELSE [old EXCEPT !.val = old.val + 1]
    IN  [store |-> [s EXCEPT ![key] = new], reply |-> new.val]

\* Variant of EXPIRE that takes no notice of NX.
RedisExpireAlways(s, key, seconds, nx) ==
    LET old == s[key] IN
    IF old.val = 0 THEN [store |-> s, reply |-> FALSE]
    ELSE IF seconds <= 0
         THEN [store |-> [s EXCEPT ![key] = NoRecord], reply |-> TRUE]
    ELSE [store |-> [s EXCEPT ![key].ttl = seconds], reply |-> TRUE]

\* EXPIRE key seconds [NX]: nothing for an absent key; with NX nothing for a
\* key that has a TTL; a timeout that is not positive deletes the key;
\* otherwise the key has `seconds` left to live.  The reply is whether the
\* timeout was set.
RedisExpire(s, key, seconds, nx) ==
    LET old == s[key] IN
    IF old.val = 0 THEN [store |-> s, reply |-> FALSE]
    ELSE IF nx /\ old.ttl # 0 THEN [store |-> s, reply |-> FALSE]
    ELSE IF seconds <= 0
         THEN [store |-> [s EXCEPT ![key] = NoRecord], reply |-> TRUE]
    ELSE [store |-> [s EXCEPT ![key].ttl = seconds], reply |-> TRUE]

RedisCommand(s, cmd) ==
    IF cmd.op = "INCR" THEN RedisIncr(s, cmd.key)
    ELSE RedisExpire(s, cmd.key, cmd.seconds, cmd.nx)

\* Variant of execute() for a pipeline that is no transaction and breaks
\* off after its first command.
ExecuteFirstOnly(s, cmds) ==
    LET first == RedisCommand(s, Head(cmds))
    IN  [store |-> first.store, replies |-> <<first.reply, FALSE>>]

\* pipeline.execute() on the server: the queued commands run in order as one
\* MULTI/EXEC transaction; the replies come back in order.
RECURSIVE ExecuteAtomic(_, _)
ExecuteAtomic(s, cmds) ==
    IF cmds = <<>> THEN [store |-> s, replies |-> <<>>]
    ELSE LET first == RedisCommand(s, Head(cmds))
             rest == ExecuteAtomic(first.store, Tail(cmds))
         IN  [store |-> rest.store, replies |-> <<first.reply>> \o rest.replies]

\* ------------------------------------------------------------ _acquire
\* Variant of the batch whose EXPIRE has no NX: every batch sets the
\* time-to-live anew.
QueueCommandsRefresh(cache_key, rate_spec) ==
    <<IncrCmd(cache_key), ExpireCmd(cache_key, rate_spec.seconds, FALSE)>>

\* Variant of the batch whose EXPIRE is a second short.
QueueCommandsShort(cache_key, rate_spec) ==
    <<IncrCmd(cache_key), ExpireCmd(cache_key, rate_spec.seconds - 1, TRUE)>>

\* The two commands _acquire queues on its pipeline.
QueueCommands(cache_key, rate_spec) ==
    <<IncrCmd(cache_key), ExpireCmd(cache_key, rate_spec.seconds, TRUE)>>

\* Variant of the decision that lets one request too many through.
DeniedOffByOne(current_rate, rate_spec) ==
    current_rate > rate_spec.requests + 1

\* Variant of the decision that denies the request that reaches the limit.
DeniedAtLimit(current_rate, rate_spec) == current_rate >= rate_spec.requests

\* if current_rate > self._rate_spec.requests
Denied(current_rate, rate_spec) == current_rate > rate_spec.requests

\* Tasks are numbered in the order in which they begin.
MayBegin(t) ==
    /\ tasks[t].pc = "idle"
    /\ \A u \in Tasks : u < t => tasks[u].pc # "idle"

\* Variant of the locked section that takes no lock.
LockNot(lim, own) == lim

\* self._lock as a task takes and releases it.  A RateLimiter that factory
\* built for one call belongs to that call alone: its lock is held exactly
\* while its task is inside the locked section.
Lock(lim, own) == IF own THEN lim ELSE [lim EXCEPT !.locked = TRUE]
\* Variant of the locked section that leaves without releasing the lock.
UnlockNot(lim, own) == lim

Unlock(lim, own) == IF own THEN lim ELSE [lim EXCEPT !.locked = FALSE]

\* The locked section of _acquire up to its suspension: the two commands are
\* queued and the batch is sent.
SendBatch(task) ==
    [task EXCEPT !.pc = "exec",
                 !.pipeline = QueueCommands(task.cache_key, task.self.rate_spec),
                 !.sent = task.sent + 1]

\* _acquire up to its first suspension, for a task entering limiter lim: the
\* key is computed and the pipeline made; an unlocked lock is taken at once
\* and the batch goes out; a locked one suspends the task.
AcquireStart(lim, own) ==
    LET key == make_cache_key(lim.self.unique_key, lim.self.rate_spec,
                              lim.self.cache_prefix)
        entered == [IdleTask EXCEPT !.pc = "lock", !.own = own,
                                    !.self = lim.self, !.cache_key = key]
    IN  IF lim.locked THEN entered ELSE SendBatch(entered)

\* _acquire ends after the reply: it raises RateLimitError or returns.  Its
\* locals end with it.
AcquireReturn(task, current_rate) ==
    LET denied == Denied(current_rate, task.self.rate_spec)
    IN  [IdleTask EXCEPT !.pc = "acquired", !.own = task.own,
                         !.self = task.self, !.sent = task.sent,
                         !.acquire = IF denied THEN "denied" ELSE "granted",
                         !.error = IF denied THEN RateLimitError(current_rate)
                                   ELSE NoError]

\* Variant that turns a failure of the store call into a RateLimitError.
AcquireRaiseAsRateLimit(task, exc) ==
    [IdleTask EXCEPT !.pc = "acquired", !.own = task.own, !.self = task.self,
                     !.sent = task.sent, !.acquire = "failed",
                     !.error = [type |-> "RateLimitError", args |-> exc.args]]

\* _acquire ends because pipeline.execute() raised exc: nothing catches it.
AcquireRaise(task, exc) ==
    [IdleTask EXCEPT !.pc = "acquired", !.own = task.own, !.self = task.self,
                     !.sent = task.sent, !.acquire = "failed", !.error = exc]

\* Variant that gives a denied call's increment back.
RefundDenied(s, key, denied) ==
    IF denied /\ s[key].val > 1
    THEN [s EXCEPT ![key].val = s[key].val - 1]
    ELSE s

\* What _acquire does to the store once it has decided: nothing.
AfterDecision(s, key, denied) == s

\* Variant that starts the body whatever _acquire did.
AsyncWithAlways(task) == [task EXCEPT !.pc = "body", !.work = "running"]

\* `async with limiter:` once _acquire has ended: __aenter__ lets what it
\* raised through to the caller, and otherwise returns, and the body starts.
\* Either way the call uses its limiter no more.
AsyncWith(task) ==
    IF task.error = NoError
    THEN [task EXCEPT !.pc = "body", !.work = "running", !.own = FALSE,
                      !.self = NoConfig]
    ELSE [task EXCEPT !.pc = "raised", !.own = FALSE, !.self = NoConfig]

\* Variant of __aexit__ that suppresses what the body raised.
AExitSuppress(task, exc) ==
    [IdleTask EXCEPT !.pc = "done", !.sent = task.sent,
                     !.acquire = task.acquire,
                     !.work = IF exc = NoError THEN "returned" ELSE "raised",
                     !.error = NoError]

\* __aexit__(exc_type, exc, tb) when the body has returned (exc = NoError) or
\* raised exc: it does nothing and returns None, so exc goes on to the caller.
AExit(task, exc) ==
    [IdleTask EXCEPT !.pc = "done", !.sent = task.sent,
                     !.acquire = task.acquire,
                     !.work = IF exc = NoError THEN "returned" ELSE "raised",
                     !.error = exc]

\* -------------------------------------------------------------- history
\* For each key: lives, the records created at it so far, and log, with one
\* entry for each batch that counted in the latest of them, in order: the
\* limiter that sent it, the replies it got from the server, and what its
\* call got in the end ("pending" until then; "lost" when the reply never
\* arrived).
Pending == [type |-> "pending", args |-> <<>>]
Granted == [type |-> "granted", args |-> <<>>]
Lost == [type |-> "lost", args |-> <<>>]

Entry(task, replies) ==
    [self |-> task.self, rate |-> replies[1], set |-> replies[2],
     got |-> Pending]

Logged(h, before, entry) ==
    IF before.val = 0
    THEN [lives |-> h.lives + 1, log |-> <<entry>>]
    ELSE [h EXCEPT !.log = Append(h.log, entry)]

Settled(h, life, batch, got) ==
    IF h.lives = life THEN [h EXCEPT !.log[batch].got = got] ELSE h

\* -------------------------------------------------------------- actions
\* RateLimiter(unique_key, rate_spec, backend, cache_prefix=...) by user code.
Construct(u, rs, p) ==
    /\ ~shared.made
    /\ shared' = NewLimiter(u, rs, p)
    /\ UNCHANGED <<tasks, store, history, recent>>

\* `async with shared:` __aenter__ awaits _acquire.
AEnter(t) ==
    /\ MayBegin(t)
    /\ shared.made
    /\ tasks' = [tasks EXCEPT ![t] = AcquireStart(shared, FALSE)]
    /\ shared' = Lock(shared, FALSE)
    /\ UNCHANGED <<store, history, recent>>

\* Variant of factory whose calls all use one RateLimiter, made when the
\* function was decorated.
FactoryOneLimiter(t, f) ==
    /\ MayBegin(t)
    /\ tasks' = [tasks EXCEPT ![t] =
                    AcquireStart([NewLimiter(f.qualname, f.rate_spec,
                                             f.cache_prefix)
                                     EXCEPT !.locked = shared.locked], FALSE)]
    /\ shared' = Lock(shared, FALSE)
    /\ UNCHANGED <<store, history, recent>>

\* A call of a function wrapped by @rate_limit: factory builds a new
\* RateLimiter named after the function and enters it.
Factory(t, f) ==
    /\ MayBegin(t)
    /\ tasks' = [tasks EXCEPT ![t] =
                   AcquireStart(NewLimiter(f.qualname, f.rate_spec,
                                           f.cache_prefix), TRUE)]
    /\ UNCHANGED <<shared, store, history, recent>>

\* A task suspended on the lock gets it once it is free and sends its batch.
LockAcquire(t) ==
    /\ tasks[t].pc = "lock"
    /\ ~shared.locked
    /\ shared' = Lock(shared, tasks[t].own)
    /\ tasks' = [tasks EXCEPT ![t] = SendBatch(tasks[t])]
    /\ UNCHANGED <<store, history, recent>>

\* The server runs the batch of task t.
StoreExecStep(t) ==
    /\ tasks[t].pc = "exec"
    /\ LET r == ExecuteAtomic(store, tasks[t].pipeline)
           k == tasks[t].cache_key
           h == Logged(history[k], store[k], Entry(tasks[t], r.replies))
       IN  /\ store' = r.store
           /\ history' = [history EXCEPT ![k] = h]
           /\ tasks' = [tasks EXCEPT ![t].pc = "reply",
                                     ![t].reply = r.replies,
                                     ![t].life = h.lives,
                                     ![t].batch = Len(h.log)]
    /\ UNCHANGED shared

StoreExec(t) == StoreExecStep(t) /\ UNCHANGED recent

\* pipeline.execute() returns: current_rate is read, the lock is released on
\* the way out of `async with self._lock`, and the call is denied or granted.
Receive(t) ==
    /\ tasks[t].pc = "reply"
    /\ LET current_rate == tasks[t].reply[1]
           k == tasks[t].cache_key
           ended == AcquireReturn(tasks[t], current_rate)
       IN  /\ tasks' = [tasks EXCEPT ![t] = AsyncWith(ended)]
           /\ store' = AfterDecision(store, k, ended.acquire = "denied")
           /\ history' = [history EXCEPT ![k] =
                 Settled(history[k], tasks[t].life, tasks[t].batch,
                         IF ended.error = NoError THEN Granted
                         ELSE ended.error)]
    /\ shared' = Unlock(shared, tasks[t].own)
    /\ UNCHANGED recent

\* pipeline.execute() raises: the round trip failed before the server ran the
\* batch, or after (the reply is lost).  The error leaves _acquire through
\* `async with self._lock`, which releases the lock.
ReceiveError(t) ==
    /\ tasks[t].pc \in {"exec", "reply"}
    /\ tasks' = [tasks EXCEPT ![t] =
                   AsyncWith(AcquireRaise(tasks[t], ConnectionError))]
    /\ history' =
           IF tasks[t].pc = "reply"
           THEN [history EXCEPT ![tasks[t].cache_key] =
                    Settled(history[tasks[t].cache_key], tasks[t].life,
                            tasks[t].batch, Lost)]
           ELSE history
    /\ shared' = Unlock(shared, tasks[t].own)
    /\ UNCHANGED <<store, recent>>

\* The guarded body ends, returning or raising, and __aexit__ runs.
BodyEnd(t, ok) ==
    /\ tasks[t].pc = "body"
    /\ tasks' = [tasks EXCEPT ![t] =
                   AExit(tasks[t], IF ok THEN NoError ELSE WorkError)]
    /\ UNCHANGED <<shared, store, history, recent>>

\* A second passes on the server: every TTL runs down by one, and a key whose
\* TTL runs out is gone.
Elapse ==
    /\ store' = [k \in Keys |->
                   IF store[k].ttl = 0 THEN store[k]
                   ELSE IF store[k].ttl = 1 THEN NoRecord
                   ELSE [store[k] EXCEPT !.ttl = store[k].ttl - 1]]
    /\ UNCHANGED <<shared, tasks, history>>

Tick ==
    /\ \E k \in Keys : store[k].ttl # 0
    /\ Elapse
    /\ UNCHANGED recent

Next ==
    \/ \E c \in Configs : Construct(c.unique_key, c.rate_spec, c.cache_prefix)
    \/ \E t \in Tasks : AEnter(t)
    \/ \E t \in Tasks, f \in Decorated : Factory(t, f)
    \/ \E t \in Tasks : LockAcquire(t)
    \/ \E t \in Tasks : StoreExec(t)
    \/ \E t \in Tasks : Receive(t)
    \/ \E t \in Tasks : ReceiveError(t)
    \/ \E t \in Tasks, ok \in BOOLEAN : BodyEnd(t, ok)
    \/ Tick

Spec == Init /\ [][Next]_vars

\* ------------------------------------------------------------- claims
\* The RateSpec of the spec's data model: both fields positive.
ValidSpec(rs) == rs.requests >= 1 /\ rs.seconds >= 1

KeyOf(u, rs) == make_cache_key(u, rs, DefaultPrefix)

Log(k) == history[k].log

Grants(log) == Cardinality({j \in 1..Len(log) : log[j].got = Granted})

Delivered(log) ==
    \A j \in 1..Len(log) : log[j].got # Pending /\ log[j].got # Lost

\* C1: in a record's lifetime, the acquires whose reply arrives are granted
\* while they are among the first N = requests to count in it, and denied
\* from the (N+1)th on, the j-th with a RateLimitError that carries j (so the
\* (N+1)th carries N+1): denied iff the counter after the increment is > N.
C1_WindowAccounting ==
    \A k \in Keys : \A j \in 1..Len(Log(k)) :
        LET e == Log(k)[j]
            N == e.self.rate_spec.requests
        IN  /\ j <= N => (e.got = Granted \/ e.got = Pending \/ e.got = Lost)
            /\ j > N => (e.got = RateLimitError(j) \/ e.got = Pending
                         \/ e.got = Lost)

\* C1 witness: with requests = 2, two acquires were granted and the third was
\* denied with counter value 3.
C1_Witness ==
    \E k \in Keys :
        /\ Len(Log(k)) = 3
        /\ Log(k)[1].self.rate_spec.requests = 2
        /\ Log(k)[1].got = Granted
        /\ Log(k)[2].got = Granted
        /\ Log(k)[3].got = RateLimitError(3)

\* C2: whatever limiters send them and however they interleave, the batches
\* that count in one record observe 1, 2, ..., k in order, and the live
\* counter is k: no increment is lost or counted twice.  So at most N of
\* them are granted, and, once every reply has arrived, exactly min(k, N).
C2_NoLostIncrement ==
    \A k \in Keys :
        LET log == Log(k)
            N == IF log = <<>> THEN 0 ELSE log[1].self.rate_spec.requests
        IN  /\ \A j \in 1..Len(log) : log[j].rate = j
            /\ store[k].val # 0 => store[k].val = Len(log)
            /\ Grants(log) <= Cardinality(1..N)
            /\ Delivered(log) =>
                   Grants(log) = Cardinality({j \in 1..Len(log) : j <= N})
            /\ \A t, u \in Tasks :
                   (/\ t # u
                    /\ tasks[t].pc = "reply" /\ tasks[u].pc = "reply"
                    /\ tasks[t].cache_key = k /\ tasks[u].cache_key = k
                    /\ tasks[t].life = tasks[u].life)
                   => tasks[t].reply[1] # tasks[u].reply[1]

\* C2 witness: three limiters that factory built, each with its own lock,
\* have counted in the record of f (the shared limiter is g's): the replies
\* all arrived, and min(3, 1) = 1 call was granted.
C2_Witness ==
    /\ shared.made /\ shared.self.unique_key = "g"
    /\ LET log == Log(KeyOf("f", RateSpec(1, 2)))
       IN  Len(log) = 3 /\ Delivered(log) /\ Grants(log) = 1

\* C3: when a record has expired, the next acquire at its key (requests >= 1)
\* starts a new record: it observes the counter value 1 and is granted.
C3_NewWindow ==
    \A k \in Keys :
        (/\ history[k].lives >= 2
         /\ ValidSpec(Log(k)[1].self.rate_spec))
        => /\ Log(k)[1].rate = 1
           /\ Log(k)[1].set
           /\ \/ Log(k)[1].got = Granted
              \/ Log(k)[1].got = Pending
              \/ Log(k)[1].got = Lost

\* C3 witness: a call was denied in one record's lifetime, the record
\* expired, and the first call after that was granted.
C3_Witness ==
    \E k \in Keys :
        /\ history[k].lives = 2
        /\ ValidSpec(Log(k)[1].self.rate_spec)
        /\ Log(k)[1].got = Granted
        /\ \E t \in Tasks : /\ tasks[t].pc = "raised"
                            /\ tasks[t].error.type = "RateLimitError"

BatchStep(t) == tasks[t].pc = "exec" /\ tasks'[t].pc = "reply"

\* C4: (seconds >= 1) the batch that creates a record sets its time-to-live
\* to seconds; a batch that finds the record leaves its time-to-live as it
\* is; and no step ever gives a living record more time.
C4_TtlSetOnce ==
    [][/\ \A t \in Tasks :
              (BatchStep(t) /\ tasks[t].self.rate_spec.seconds >= 1)
              => LET k == tasks[t].cache_key
                 IN  IF store[k].val = 0
                     THEN /\ store'[k].ttl = tasks[t].self.rate_spec.seconds
                          /\ tasks'[t].reply[2] = TRUE
                     ELSE /\ store'[k].ttl = store[k].ttl
                          /\ tasks'[t].reply[2] = FALSE
       /\ \A k \in Keys :
              (store[k].val # 0 /\ store'[k].val # 0)
              => store'[k].ttl <= store[k].ttl]_vars

\* C4 witness: a batch has found a record with 1 of its 2 seconds left and
\* has left it so.
C4_Witness ==
    \E t \in Tasks :
        /\ tasks[t].pc = "reply"
        /\ tasks[t].self.rate_spec.seconds = 2
        /\ tasks[t].reply = <<2, FALSE>>
        /\ store[tasks[t].cache_key] = [val |-> 2, ttl |-> 1]

\* C5: a batch adds exactly 1 to the counter at its own key (and replies
\* with the result) and changes no other key; a call sends one batch only;
\* and when the call ends, granted, denied or failed, the store stays as it
\* is: nothing is refunded.
C5_OneIncrement ==
    [][\A t \in Tasks :
          /\ tasks'[t].sent <= 1
          /\ BatchStep(t)
             => LET k == tasks[t].cache_key
                IN  /\ tasks'[t].reply[1] = store[k].val + 1
                    /\ tasks[t].self.rate_spec.seconds >= 1
                       => store'[k].val = store[k].val + 1
                    /\ \A o \in Keys \ {k} : store'[o] = store[o]
                    /\ tasks'[t].sent = tasks[t].sent
          /\ (tasks[t].pc \in {"exec", "reply"} /\ ~BatchStep(t)
              /\ tasks'[t] # tasks[t])
             => /\ store' = store
                /\ tasks'[t].pc \in {"body", "raised"}]_vars

\* C5 witness: a call was denied with counter value 2, and the counter is
\* still 2, while the counter of another key is 1.
C5_Witness ==
    /\ \E t \in Tasks : /\ tasks[t].pc = "raised"
                        /\ tasks[t].error = RateLimitError(2)
    /\ store[KeyOf("f", RateSpec(1, 2))].val = 2
    /\ store[KeyOf("g", RateSpec(1, 2))].val = 1

\* C6: limiters with different identities (same RateSpec, same prefix) count
\* in different records: the counter value a batch observes is the number of
\* batches of its own identity in its record so far, whatever limiters of
\* other identities have done, and a record's time-to-live is never more
\* than its own limiter's seconds.
C6_IndependentCounters ==
    \A k \in Keys : \A j \in 1..Len(Log(k)) :
        LET e == Log(k)[j]
        IN  /\ e.rate = Cardinality({i \in 1..j :
                            Log(k)[i].self.unique_key = e.self.unique_key})
            /\ make_cache_key(e.self.unique_key, e.self.rate_spec,
                              e.self.cache_prefix) = k
            /\ store[k].ttl <= e.self.rate_spec.seconds

\* C6 witness: f's budget is used up and a call of f was denied; a second
\* later the first call of g, with the same RateSpec, observed 1, was granted
\* and has its full 2 seconds.
C6_Witness ==
    LET kf == KeyOf("f", RateSpec(1, 2))
        kg == KeyOf("g", RateSpec(1, 2))
    IN  /\ Len(Log(kf)) = 2
        /\ Log(kf)[2].got = RateLimitError(2)
        /\ store[kf] = [val |-> 2, ttl |-> 1]
        /\ Len(Log(kg)) = 1
        /\ Log(kg)[1].rate = 1
        /\ Log(kg)[1].got = Granted
        /\ store[kg] = [val |-> 1, ttl |-> 2]

\* C7: a call whose store call failed raises that very error to its caller:
\* not a RateLimitError, and the guarded work does not start; no call sends
\* a second batch.
C7_StoreErrorSurfaces ==
    \A t \in Tasks :
        /\ tasks[t].sent <= 1
        /\ tasks[t].acquire = "failed"
           => /\ tasks[t].error = ConnectionError
              /\ tasks[t].pc = "raised"
              /\ tasks[t].work = "no"

\* C7 witness: a call's batch was counted and its reply was lost; the call
\* raised the ConnectionError after its one batch.
C7_Witness ==
    \E t \in Tasks, k \in Keys :
        /\ tasks[t].acquire = "failed"
        /\ tasks[t].sent = 1
        /\ tasks[t].error = ConnectionError
        /\ Len(Log(k)) = 1
        /\ Log(k)[1].got = Lost

C9_InvalidSpecNeverReachesStore ==
    \A t \in Tasks :
        tasks[t].pc \in {"exec", "reply"}
        => ValidSpec(tasks[t].self.rate_spec)

\* C10: the guarded work has started only in calls whose acquire was granted;
\* a call whose acquire was denied or failed has raised that error to its
\* caller and its work has not started; nor has the work of a call whose
\* acquire is still going on.
C10_WorkOnlyAfterGrant ==
    \A t \in Tasks :
        /\ tasks[t].work # "no" => tasks[t].acquire = "granted"
        /\ tasks[t].pc \in {"idle", "lock", "exec", "reply"}
           => tasks[t].work = "no" /\ tasks[t].acquire = "none"
        /\ tasks[t].acquire = "denied"
           => /\ tasks[t].pc = "raised"
              /\ tasks[t].work = "no"
              /\ tasks[t].error.type = "RateLimitError"
        /\ tasks[t].acquire = "failed"
           => /\ tasks[t].pc = "raised"
              /\ tasks[t].work = "no"
              /\ tasks[t].error.type = "ConnectionError"

\* C10 witness: one call was granted and its work is running, one was denied
\* and one failed, and the work of neither of these started.
C10_Witness ==
    \E t, u, v \in Tasks :
        /\ tasks[t].acquire = "granted" /\ tasks[t].work = "running"
        /\ tasks[u].acquire = "denied" /\ tasks[u].pc = "raised"
        /\ tasks[v].acquire = "failed" /\ tasks[v].pc = "raised"

BodyEndStep(t) == tasks[t].pc = "body" /\ tasks'[t].pc = "done"

\* C11: leaving the guarded scope, after the work returned or raised, sends
\* nothing to the store and releases nothing: store and lock stay as they
\* are (the permit of failed work is not given back), and what the work
\* raised reaches the caller as it is; work that returned raises nothing.
C11_ExitDoesNothing ==
    [][\A t \in Tasks :
          BodyEndStep(t)
          => /\ store' = store
             /\ shared' = shared
             /\ history' = history
             /\ tasks'[t].sent = tasks[t].sent
             /\ tasks'[t].acquire = "granted"
             /\ tasks'[t].work \in {"returned", "raised"}
             /\ tasks'[t].work = "raised" => tasks'[t].error = WorkError
             /\ tasks'[t].work = "returned" => tasks'[t].error = NoError]_vars

\* C11 witness: the work of a granted call raised; the caller has its error
\* and the counter still holds the permit the call took.
C11_Witness ==
    \E t \in Tasks :
        /\ tasks[t].pc = "done"
        /\ tasks[t].work = "raised"
        /\ tasks[t].error = WorkError
        /\ store[KeyOf("f", RateSpec(1, 2))].val = 1
        /\ Log(KeyOf("f", RateSpec(1, 2)))[1].got = Granted

\* The calls that are inside the locked section of the shared limiter.
InSection == {t \in Tasks : tasks[t].pc \in {"exec", "reply"} /\ ~tasks[t].own}

\* C14: at most one call at a time is inside the locked section of one
\* RateLimiter, and the lock is held exactly then; so the batches of two
\* calls of one limiter are never in flight together, and the reply a call
\* decides on is the reply to its own batch.
C14_OneBatchInFlight ==
    /\ Cardinality(InSection) <= 1
    /\ shared.locked <=> InSection # {}
    /\ \A t \in Tasks : tasks[t].pc = "lock" => ~tasks[t].own
    /\ \A t \in InSection : tasks[t].self = shared.self
    /\ \A t \in Tasks :
           (tasks[t].pc = "reply"
            /\ history[tasks[t].cache_key].lives = tasks[t].life)
           => LET e == Log(tasks[t].cache_key)[tasks[t].batch]
              IN  /\ e.rate = tasks[t].reply[1]
                  /\ e.self = tasks[t].self
                  /\ e.got = Pending

\* C14 witness: two calls wait for the lock of the limiter while the reply
\* to a third call's batch is on its way.
C14_Witness ==
    \E t, u, v \in Tasks :
        /\ t # u
        /\ tasks[t].pc = "lock" /\ tasks[u].pc = "lock"
        /\ tasks[v].pc = "reply" /\ ~tasks[v].own

\* C16: a counter record in the store always has a time-to-live (its
\* limiter's seconds being > 0): in no state has a counter been incremented
\* and no expiry set.
C16_RecordHasTtl ==
    \A k \in Keys :
        store[k].val # 0
        => /\ store[k].ttl >= 1
           /\ Log(k) # <<>>
           /\ Log(k)[1].self.rate_spec.seconds > 0
           /\ store[k].ttl <= Log(k)[1].self.rate_spec.seconds

\* C16 witness: the budget of requests = 1 is used up, a call was denied, and
\* the record has 1 second left.
C16_Witness ==
    \E k \in Keys :
        /\ store[k] = [val |-> 2, ttl |-> 1]
        /\ Log(k)[1].self.rate_spec = RateSpec(1, 2)
        /\ Log(k)[2].got = RateLimitError(2)

\* ------------------------------------------------------- key derivation
\* _make_cache_key on its own: user code constructs limiters with arguments
\* drawn from KeyConfigs, and calls on them get as far as the first statement
\* of _acquire, which computes the key.
KeyConfigs ==
    {Limiter(u, rs, p) :
        u \in {"f", "f1"},
        rs \in {RateSpec(1, 12), RateSpec(11, 2), RateSpec(1, 2)},
        p \in {DefaultPrefix, ""}}

\* RateLimiter(...) by user code, once more: the name is bound to the new
\* limiter.
KeyConstruct(c) ==
    /\ shared' = NewLimiter(c.unique_key, c.rate_spec, c.cache_prefix)
    /\ shared' # shared
    /\ UNCHANGED <<tasks, store, history, recent>>

\* cache_key = _make_cache_key(...) in a call on the limiter.
KeyDerive(t) ==
    /\ MayBegin(t)
    /\ shared.made
    /\ tasks' = [tasks EXCEPT ![t] =
                    [IdleTask EXCEPT
                        !.pc = "lock", !.self = shared.self,
                        !.cache_key = make_cache_key(shared.self.unique_key,
                                                     shared.self.rate_spec,
                                                     shared.self.cache_prefix)]]
    /\ UNCHANGED <<shared, store, history, recent>>

KeyNext ==
    \/ \E c \in KeyConfigs : KeyConstruct(c)
    \/ \E t \in Tasks : KeyDerive(t)

KeySpec == Init /\ [][KeyNext]_vars

Derived == {t \in Tasks : tasks[t].pc = "lock"}

\* C12: the key is a function of (identity, RateSpec, prefix): calls on
\* limiters with the same three get the same key; and limiters that differ in
\* identity, in requests or in seconds give the digest different texts to
\* hash, and so (the digest not colliding) get different keys.
C12_KeyInjective ==
    \A t, u \in Derived :
        LET a == tasks[t].self
            b == tasks[u].self
        IN  /\ a = b => tasks[t].cache_key = tasks[u].cache_key
            /\ (\/ a.unique_key # b.unique_key
                \/ a.rate_spec.requests # b.rate_spec.requests
                \/ a.rate_spec.seconds # b.rate_spec.seconds)
               => /\ tasks[t].cache_key.digest.md5
                        # tasks[u].cache_key.digest.md5
                  /\ tasks[t].cache_key # tasks[u].cache_key

\* C12 witness: keys were computed for ("f", requests=1, seconds=12), for
\* ("f", requests=11, seconds=2) and for ("f1", requests=1, seconds=2), whose
\* letters and digits are the same in the same order.
C12_Witness ==
    \E t, u, v \in Derived :
        /\ tasks[t].self.unique_key = "f"
        /\ tasks[t].self.rate_spec = RateSpec(1, 12)
        /\ tasks[u].self.unique_key = "f"
        /\ tasks[u].self.rate_spec = RateSpec(11, 2)
        /\ tasks[v].self.unique_key = "f1"
        /\ tasks[v].self.rate_spec = RateSpec(1, 2)

\* C13 (as stated): a limiter whose prefix is the empty string gets its key
\* built with the default prefix, so every key starts with a prefix that is
\* not empty.
C13_EmptyPrefixDefaults ==
    \A t \in Derived :
        /\ tasks[t].cache_key.prefix # ""
        /\ tasks[t].self.cache_prefix = ""
           => tasks[t].cache_key.prefix = DefaultPrefix

\* C13 (amended): the key is built with the prefix the limiter was given,
\* as it is: an empty prefix gives a key that is the digest alone.
C13_PrefixAsGiven ==
    \A t \in Derived :
        /\ tasks[t].cache_key.prefix = tasks[t].self.cache_prefix
        /\ tasks[t].cache_key.digest =
               Md5HexDigest(tasks[t].self.unique_key
                            \o RateSpecStr(tasks[t].self.rate_spec))

\* C13 witness: a key was computed for a limiter with the empty prefix, and
\* one for a limiter with the default prefix.
C13_Witness ==
    \E t, u \in Derived :
        /\ tasks[t].self.cache_prefix = ""
        /\ tasks[t].cache_key.prefix = ""
        /\ tasks[u].self.cache_prefix = DefaultPrefix
        /\ tasks[u].cache_key.prefix = DefaultPrefix

\* ---------------------------------------------------------------- progress
\* What the scheduling gives: a round trip to the store ends, with the reply
\* or with an error; asyncio.Lock wakes a waiter when the lock is released;
\* and time passes.
Fairness ==
    /\ \A t \in Tasks : WF_vars(StoreExec(t) \/ Receive(t) \/ ReceiveError(t))
    /\ \A t \in Tasks : WF_vars(LockAcquire(t))
    /\ WF_vars(Tick)

\* The calls on one limiter that user code has constructed, up to the end of
\* their acquire.
AcquireInit ==
    /\ shared \in {NewLimiter(c.unique_key, c.rate_spec, c.cache_prefix) :
                      c \in Configs}
    /\ tasks = [t \in Tasks |-> IdleTask]
    /\ store = [k \in Keys |-> NoRecord]
    /\ history = [k \in Keys |-> NoHistory]
    /\ recent = [k \in Keys |-> Quiet(k)]

AcquireNext ==
    \/ \E t \in Tasks : AEnter(t)
    \/ \E t \in Tasks : LockAcquire(t)
    \/ \E t \in Tasks : StoreExec(t)
    \/ \E t \in Tasks : Receive(t)
    \/ \E t \in Tasks : ReceiveError(t)
    \/ Tick

FairSpec == AcquireInit /\ [][AcquireNext]_vars /\ Fairness

Acquiring(t) == tasks[t].pc \in {"lock", "exec", "reply"}

\* C15: every call that has begun to acquire comes to an end, granted,
\* denied or failed with an error of the store; calls that wait for the lock
\* included, whatever way the calls before them ended.
C15_AcquireTerminates ==
    \A t \in Tasks :
        Acquiring(t) ~> tasks[t].acquire \in {"granted", "denied", "failed"}

\* C15 witness: one call on the limiter was denied and one failed, and a
\* third call holds the lock after them.
C15_Witness ==
    \E t, u, v \in Tasks :
        /\ tasks[t].acquire = "denied"
        /\ tasks[u].acquire = "failed"
        /\ tasks[v].pc = "exec" /\ ~tasks[v].own
        /\ shared.locked
        /\ history[tasks[v].cache_key].lives = 1
        /\ Len(Log(tasks[v].cache_key)) = 2

\* C17: calls that keep coming, denied ones included, do not put off the end
\* of the window: a step of a call leaves the time a record has left as it
\* is; each second that passes takes one second off it, and the record ends
\* with its last second; so every record ends; and the batch that then finds
\* no record observes 1, which (requests >= 1) is a grant.
C17_RolloverNotPostponed ==
    /\ [][\A k \in Keys :
              store[k].val # 0
              => IF tasks' = tasks
                 THEN IF store[k].ttl = 1
                      THEN store'[k] = NoRecord
                      ELSE store'[k] = [store[k] EXCEPT !.ttl = store[k].ttl - 1]
                 ELSE /\ store'[k].ttl = store[k].ttl
                      /\ store'[k].val >= store[k].val]_vars
    /\ [][\A t \in Tasks :
              (BatchStep(t) /\ store[tasks[t].cache_key].val = 0)
              => /\ tasks'[t].reply[1] = 1
                 /\ tasks[t].self.rate_spec.requests >= 1
                    => ~Denied(tasks'[t].reply[1], tasks[t].self.rate_spec)]_vars
    /\ \A k \in Keys : (store[k].val # 0) ~> (store[k].val = 0)

\* C17 witness: two calls were denied in the window of a record, one of them
\* a second after the window began, and the record still has just the 1
\* second left that remained by then.
C17_Witness ==
    \E k \in Keys :
        /\ store[k] = [val |-> 3, ttl |-> 1]
        /\ Log(k)[1].self.rate_spec = RateSpec(1, 2)
        /\ Log(k)[2].got = RateLimitError(2)
        /\ Log(k)[3].got = RateLimitError(3)

\* -------------------------------------------------------------- decorator
\* Calls of two functions wrapped by @rate_limit with the same rate_spec,
\* backend and cache_prefix.
DecoratedFns ==
    Decorated \cup {[qualname |-> "g", rate_spec |-> RateSpec(1, 2),
                     cache_prefix |-> DefaultPrefix]}

DecoNext ==
    \/ \E t \in Tasks, f \in DecoratedFns : Factory(t, f)
    \/ \E t \in Tasks : StoreExec(t)
    \/ \E t \in Tasks : Receive(t)
    \/ \E t \in Tasks : ReceiveError(t)
    \/ \E t \in Tasks, ok \in BOOLEAN : BodyEnd(t, ok)
    \/ Tick

DecoSpec == Init /\ [][DecoNext]_vars

InFlight == {t \in Tasks : tasks[t].pc \in {"exec", "reply"}}

\* C19: every call of a wrapped function has a RateLimiter and a lock of its
\* own, so no call waits for another and their batches may be in flight
\* together; each is keyed by the qualified name of its function, so the
\* calls of one function count in one record, in which they observe 1, 2,
\* ... and at most N of them are granted, and the calls of functions with
\* different names count in different records.
C19_DecoratorSharesCounter ==
    /\ ~shared.locked
    /\ \A t \in Tasks : tasks[t].pc # "lock"
    /\ \A t \in InFlight :
           /\ tasks[t].own
           /\ \E f \in DecoratedFns :
                  /\ tasks[t].self =
                         Limiter(f.qualname, f.rate_spec, f.cache_prefix)
                  /\ tasks[t].cache_key =
                         make_cache_key(f.qualname, f.rate_spec,
                                        f.cache_prefix)
    /\ \A k \in Keys :
           /\ \A j \in 1..Len(Log(k)) :
                  /\ Log(k)[j].rate = j
                  /\ Log(k)[j].self.unique_key = Log(k)[1].self.unique_key
           /\ Log(k) # <<>>
              => Grants(Log(k)) <= Log(k)[1].self.rate_spec.requests
    /\ \A f, g \in DecoratedFns :
           f.qualname # g.qualname
           => make_cache_key(f.qualname, f.rate_spec, f.cache_prefix)
                  # make_cache_key(g.qualname, g.rate_spec, g.cache_prefix)

\* C19 witness: the batches of two calls of f were in flight together and
\* observed 1 and 2; the first was granted and the reply to the second is
\* on its way; and a call of g, counted apart from them, was granted.
C19_Witness ==
    LET kf == KeyOf("f", RateSpec(1, 2))
        kg == KeyOf("g", RateSpec(1, 2))
    IN  /\ \E t, u \in Tasks :
               /\ tasks[t].pc = "body"
               /\ tasks[u].pc = "reply"
               /\ tasks[u].cache_key = kf
               /\ tasks[u].reply[1] = 2
        /\ Len(Log(kf)) = 2
        /\ Log(kf)[1].got = Granted
        /\ Len(Log(kg)) = 1
        /\ Log(kg)[1].got = Granted
        /\ store[kg].val = 1

\* ------------------------------------------------------------------ timing
\* The calls on one limiter that user code has constructed and the calls of
\* the wrapped function, up to the end of their acquire, with the seconds
\* counted in which permits are taken.  A
\* permit is taken when the server runs a batch whose counter value does not
\* exceed requests: that call is granted when its reply arrives.
Counted(w, current_rate, rate_spec) ==
    IF Denied(current_rate, rate_spec) THEN w ELSE [w EXCEPT ![1] = w[1] + 1]

Passed(w) == [i \in 1..Len(w) |-> IF i = 1 THEN 0 ELSE w[i - 1]]

RECURSIVE Sum(_)
Sum(w) == IF w = <<>> THEN 0 ELSE Head(w) + Sum(Tail(w))

TimedStoreExec(t) ==
    /\ StoreExecStep(t)
    /\ recent' = [recent EXCEPT ![tasks[t].cache_key] =
                     Counted(recent[tasks[t].cache_key], tasks'[t].reply[1],
                             tasks[t].self.rate_spec)]

TimedTick ==
    /\ \E k \in Keys : store[k].ttl # 0 \/ Sum(recent[k]) # 0
    /\ Elapse
    /\ recent' = [k \in Keys |-> Passed(recent[k])]

TimedNext ==
    \/ \E t \in Tasks : AEnter(t)
    \/ \E t \in Tasks, f \in Decorated : Factory(t, f)
    \/ \E t \in Tasks : LockAcquire(t)
    \/ \E t \in Tasks : TimedStoreExec(t)
    \/ \E t \in Tasks : Receive(t)
    \/ \E t \in Tasks : ReceiveError(t)
    \/ TimedTick

TimedSpec == AcquireInit /\ [][TimedNext]_vars

\* C18: (RateSpec valid) the permits taken at one key within any interval of
\* length seconds, which touches at most seconds + 1 successive seconds of
\* the clock, are at most 2 * requests, while in the lifetime of one record
\* at most requests are taken.  A permit is counted at the time the server
\* runs the batch that takes it.
C18_TwiceRequestsPerInterval ==
    \A k \in Keys :
        LET rs == RateSpecOf(k)
        IN  ValidSpec(rs)
            => /\ Len(recent[k]) = rs.seconds + 1
               /\ Sum(recent[k]) <= 2 * rs.requests
               /\ Cardinality({j \in 1..Len(Log(k)) :
                                  ~Denied(Log(k)[j].rate, rs)}) <= rs.requests
               /\ Grants(Log(k)) <= rs.requests

\* C18 witness: more than requests permits within one interval: a record
\* ended, the next began, and 2 * requests calls were granted in the seconds
\* an interval of length seconds touches.
C18_Witness ==
    \E k \in Keys :
        /\ ValidSpec(RateSpecOf(k))
        /\ Sum(recent[k]) = 2 * RateSpecOf(k).requests
        /\ history[k].lives = 2
        /\ Grants(Log(k)) = RateSpecOf(k).requests

====
